---- MODULE Spec2Model ----
(***************************************************************************)
(* RAG enrichment and verification pipeline of services/rag_service.py     *)
(* (class RAGService).                                                     *)
(*                                                                         *)
(* Numbers.  Python floats are modelled as exact decimals held in scaled   *)
(* integers:                                                               *)
(*   match.score            in units of 0.0001   (9127  is 0.9127)         *)
(*   similarity             in units of 0.1      (913   is 91.3)           *)
(*   vector_score           in units of 0.01     (913   is 9.13)           *)
(*   ai_score, final_score,                                                *)
(*   consistency_score,                                                    *)
(*   peak_relevance_score   in units of 0.1      (90    is 9.0)            *)
(* round(x, 1) is round-half-to-even on the exact decimal value; the       *)
(* representation error of binary floating point is not modelled.          *)
(*                                                                         *)
(* Dictionaries are records; d.get(k, default) is Get(d, k, default).      *)
(* The Korean dictionary keys of the source are written in ASCII:          *)
(*   "제목" title, "관련산업" related_industries,                          *)
(*   "관련과거이슈" related_past_issues, "RAG분석신뢰도" rag_confidence.   *)
(***************************************************************************)
EXTENDS Integers, Sequences, FiniteSets, TLC

VARIABLES
    filtered_issues,      \* argument of analyze_issues_with_rag
    enriched_issues,      \* the list analyze_issues_with_rag builds and returns
    issue_idx,            \* 1-based position of the for loop of analyze_issues_with_rag
    part,                 \* partition being analysed: "industry" or "past_issue"
    pc,                   \* stage the current issue is at
    search_results,       \* matches of the last index.query, until the next stage starts
    vector_candidates,    \* result of _vector_search
    ai_candidates,        \* result of _ai_rerank_candidates
    combined_candidates,  \* result of _combine_results, as returned (before verification)
    verified_candidates,  \* list built by the loop of _apply_verification_layer
    related_industries,   \* result of _analyze_industry_for_issue for the current issue
    related_past_issues,  \* result of _analyze_past_issues_for_issue for the current issue
    calls,                \* external calls made for the current (issue, partition)
    failures,             \* failures the handlers have logged for the issue started last
    \* services/__init__.py
    initialization_lock,  \* _initialization_lock: the thread that holds it, or None
    initialized,          \* _initialized
    database_service,     \* _database_service: an instance number, or NoInstance
    rag_service,          \* _rag_service
    pipeline_service,     \* _pipeline_service
    created,              \* instances the functions of services/__init__.py have constructed, per kind
    callers,              \* the threads that call these functions
    \* background_pipeline.py, services/pipeline_service.py, services/database_service.py
    is_running,           \* BackgroundPipelineExecutor.is_running
    current_task,         \* the task the event loop is executing, or None
    tasks,                \* the calls of run_scheduled_update on the executor's loop, and their locals
    database,             \* the tables behind the executor's connection, and what is committed
    result_files          \* files _save_pipeline_result has written

ragvars == <<filtered_issues, enriched_issues, issue_idx, part, pc, search_results,
             vector_candidates, ai_candidates, combined_candidates,
             verified_candidates, related_industries, related_past_issues, calls,
             failures>>

servicevars == <<initialization_lock, initialized, database_service, rag_service,
                 pipeline_service, created, callers>>

executorvars == <<is_running, current_task, tasks, database, result_files>>

vars == <<ragvars, servicevars, executorvars>>

(***************************************************************************)
(* Bounds of the exploration.                                              *)
(***************************************************************************)
MaxIssues == 2
MaxMatches == 4
MaxAi == 2
MaxCalls == 2

(***************************************************************************)
(* Program constants.                                                      *)
(***************************************************************************)
TopK == 3
PenaltyNum == 5
VectorWeight == 3
AiWeight == 7
VectorScoreCap == 1000

(***************************************************************************)
(* Generic helpers.                                                        *)
(***************************************************************************)
Min(a, b) == IF a <= b THEN a ELSE b

Max(a, b) == IF a >= b THEN a ELSE b

Get(d, k, default) == IF k \in DOMAIN d THEN d[k] ELSE default

\* round(n / d, 0) for d > 0, ties to the even integer (Python's round)
RoundDiv(n, d) ==
    LET q == n \div d
        r == n % d
    IN  IF 2 * r < d THEN q
        ELSE IF 2 * r > d THEN q + 1
        ELSE IF q % 2 = 0 THEN q ELSE q + 1

RECURSIVE SumSeq(_)
SumSeq(s) == IF s = <<>> THEN 0 ELSE Head(s) + SumSeq(Tail(s))

RECURSIVE MaxSeq(_)
MaxSeq(s) == IF Len(s) = 1 THEN s[1] ELSE Max(Head(s), MaxSeq(Tail(s)))

Prefix(s, n) == SubSeq(s, 1, Min(n, Len(s)))

NameSet(cands) == {cands[k].name : k \in 1..Len(cands)}

(***************************************************************************)
(* Python values.  None is a distinguished value; a number that came from  *)
(* parsed JSON is tagged so that a value of another type can stand where a *)
(* number is expected.                                                     *)
(***************************************************************************)
None == "<None>"

Num(n) == [num |-> n]

Str(s) == [str |-> s]

IsNum(v) == "num" \in DOMAIN v

\* truth value of a name: None and "" are falsy
Truthy(name) == name # None /\ name # ""

NotADict == [not_a_dict |-> TRUE]

IsDict(v) == "not_a_dict" \notin DOMAIN v

Ok(v) == [ok |-> TRUE, value |-> v]

Raised(e) == [ok |-> FALSE, error |-> e]

(***************************************************************************)
(* _vector_search, lines 160-172: one candidate per match that has a       *)
(* truthy name not yet among the candidates.                               *)
(***************************************************************************)
FormatPeriod(meta) == <<Get(meta, "start_date", ""), " ~ ", Get(meta, "end_date", "")>>

MatchCandidate(match, namespace) ==
    [name |-> Get(match.metadata, "name", None),
     similarity |-> RoundDiv(match.score, 10),
     description |-> Get(match.metadata, "description", ""),
     period |-> IF namespace = "past_issue" THEN FormatPeriod(match.metadata) ELSE None]

\* variant: no de-duplication by name
KeepsMatchNoDedupe(name, candidates) == Truthy(name)

KeepsMatch(name, candidates) ==
    Truthy(name) /\ ~ \E k \in 1..Len(candidates) : candidates[k].name = name

RECURSIVE BuildCandidates(_, _, _)
BuildCandidates(matches, namespace, candidates) ==
    IF matches = <<>> THEN candidates
    ELSE LET match == Head(matches)
             name == Get(match.metadata, "name", None)
         IN  BuildCandidates(Tail(matches), namespace,
                 IF KeepsMatch(name, candidates)
                 THEN Append(candidates, MatchCandidate(match, namespace))
                 ELSE candidates)

(***************************************************************************)
(* _combine_results.  all_candidates is an insertion-ordered dict keyed by *)
(* name, held as a sequence of its values.                                 *)
(***************************************************************************)
FieldName(mode) == IF mode = "industry" THEN "industry" ELSE "issue"

VectorScore(similarity) == Min(similarity, VectorScoreCap)

\* variant: a neutral default ai_score instead of 0
NewCandidateNeutralDefault(candidate) ==
    [name |-> candidate.name,
     vector_score |-> VectorScore(candidate.similarity),
     ai_score |-> Num(50),
     ai_reason |-> "",
     description |-> candidate.description,
     period |-> Get(candidate, "period", None)]

NewCandidate(candidate) ==
    [name |-> candidate.name,
     vector_score |-> VectorScore(candidate.similarity),
     ai_score |-> Num(0),
     ai_reason |-> "",
     description |-> candidate.description,
     period |-> Get(candidate, "period", None)]

\* all_candidates[name] = value: a new key goes last, an old key keeps its place
DictPut(all_candidates, value) ==
    IF \E k \in 1..Len(all_candidates) : all_candidates[k].name = value.name
    THEN [k \in 1..Len(all_candidates) |->
             IF all_candidates[k].name = value.name THEN value ELSE all_candidates[k]]
    ELSE Append(all_candidates, value)

RECURSIVE FromVector(_, _)
FromVector(vector_cands, all_candidates) ==
    IF vector_cands = <<>> THEN all_candidates
    ELSE FromVector(Tail(vector_cands), DictPut(all_candidates, NewCandidate(Head(vector_cands))))

\* variant: a re-ranker entry with an unknown name is added instead of discarded
OverlayOneAdds(all_candidates, candidate, field_name) ==
    LET name == Get(candidate, field_name, None)
        overlaid == [k \in 1..Len(all_candidates) |->
                        IF all_candidates[k].name = name
                        THEN [all_candidates[k] EXCEPT
                                 !.ai_score = Get(candidate, "score", Num(0)),
                                 !.ai_reason = Get(candidate, "reason", "")]
                        ELSE all_candidates[k]]
    IN  IF \E k \in 1..Len(all_candidates) : all_candidates[k].name = name
        THEN overlaid
        ELSE Append(overlaid,
                    [name |-> name, vector_score |-> 0,
                     ai_score |-> Get(candidate, "score", Num(0)),
                     ai_reason |-> Get(candidate, "reason", ""),
                     description |-> "", period |-> None])

\* lines 241-244 for one re-ranker entry
OverlayOne(all_candidates, candidate, field_name) ==
    LET name == Get(candidate, field_name, None)
    IN  [k \in 1..Len(all_candidates) |->
            IF all_candidates[k].name = name
            THEN [all_candidates[k] EXCEPT
                     !.ai_score = Get(candidate, "score", Num(0)),
                     !.ai_reason = Get(candidate, "reason", "")]
            ELSE all_candidates[k]]

\* lines 240-244; candidate.get on an entry that is no dict raises
RECURSIVE Overlay(_, _, _)
Overlay(all_candidates, ai_cands, field_name) ==
    IF ai_cands = <<>> THEN Ok(all_candidates)
    ELSE IF ~ IsDict(Head(ai_cands)) THEN Raised("AttributeError")
    ELSE Overlay(OverlayOne(all_candidates, Head(ai_cands), field_name),
                 Tail(ai_cands), field_name)

\* variant: the two weights exchanged
FinalScoreSwapped(vector_score, ai_score) ==
    RoundDiv(AiWeight * vector_score + 10 * VectorWeight * ai_score, 100)

\* line 249, in tenths: round(vector_score * 0.3 + ai_score * 0.7, 1)
FinalScore(vector_score, ai_score) ==
    RoundDiv(VectorWeight * vector_score + 10 * AiWeight * ai_score, 100)

\* lines 246-249; the arithmetic raises on an ai_score that is no number
Scored(all_candidates) ==
    IF \E k \in 1..Len(all_candidates) : ~ IsNum(all_candidates[k].ai_score)
    THEN Raised("TypeError")
    ELSE Ok([k \in 1..Len(all_candidates) |->
               [name |-> all_candidates[k].name,
                vector_score |-> all_candidates[k].vector_score,
                ai_score |-> all_candidates[k].ai_score.num,
                ai_reason |-> all_candidates[k].ai_reason,
                description |-> all_candidates[k].description,
                period |-> all_candidates[k].period,
                final_score |-> FinalScore(all_candidates[k].vector_score,
                                           all_candidates[k].ai_score.num)]])

\* sorted(..., key=final_score, reverse=True): stable, equal keys keep their order
\* variant: an unstable sort, equal keys come out in reverse order
RECURSIVE InsertDescUnstable(_, _)
InsertDescUnstable(sorted, c) ==
    IF sorted = <<>> THEN <<c>>
    ELSE IF Head(sorted).final_score > c.final_score
         THEN <<Head(sorted)>> \o InsertDescUnstable(Tail(sorted), c)
         ELSE <<c>> \o sorted

RECURSIVE InsertDesc(_, _)
InsertDesc(sorted, c) ==
    IF sorted = <<>> THEN <<c>>
    ELSE IF Head(sorted).final_score >= c.final_score
         THEN <<Head(sorted)>> \o InsertDesc(Tail(sorted), c)
         ELSE <<c>> \o sorted

RECURSIVE SortedByFinalScore(_, _)
SortedByFinalScore(cands, sorted) ==
    IF cands = <<>> THEN sorted
    ELSE SortedByFinalScore(Tail(cands), InsertDesc(sorted, Head(cands)))


(***************************************************************************)
(* _verify_reasoning and the loop body of _apply_verification_layer.       *)
(***************************************************************************)
\* variant: a candidate without a reason passes verification
NoReasonVerdictGrounded ==
    [is_grounded |-> TRUE, supporting_quote |-> "", unverified_reason |-> "no_reason_generated"]

NoReasonVerdict ==
    [is_grounded |-> FALSE, supporting_quote |-> "", unverified_reason |-> "no_reason_generated"]

\* variant: a verifier failure counts as grounded
ErrorVerdictFailOpen ==
    [is_grounded |-> TRUE, supporting_quote |-> "", unverified_reason |-> "verification_error"]

ErrorVerdict ==
    [is_grounded |-> FALSE, supporting_quote |-> "", unverified_reason |-> "verification_error"]

\* truth value of verification_result.get('is_grounded')
IsGrounded(verification_result) ==
    "is_grounded" \in DOMAIN verification_result /\ verification_result.is_grounded = TRUE

\* variant: the penalty applied twice
PenalizedTwice(final_score) == RoundDiv(PenaltyNum * RoundDiv(PenaltyNum * final_score, 10), 10)

\* line 265, in tenths: round(final_score * 0.5, 1)
Penalized(final_score) == RoundDiv(PenaltyNum * final_score, 10)

\* variant: the loop visits every candidate
VerificationScopeAll(candidates) == candidates

\* variant: the slice is one too long
VerificationScopeOffByOne(candidates) == Prefix(candidates, TopK + 1)

\* candidates[:top_k], the candidates the loop visits
VerificationScope(candidates) == Prefix(candidates, TopK)

\* variant: the penalty is applied whatever the verdict
VerifiedCandidateAlwaysPenalized(candidate, verification_result) ==
    [verification |-> verification_result] @@
    [candidate EXCEPT !.final_score = Penalized(@)]

\* lines 263-269: the candidate as appended to verified_candidates
VerifiedCandidate(candidate, verification_result) ==
    [verification |-> verification_result] @@
    [candidate EXCEPT !.final_score =
        IF IsGrounded(verification_result) THEN @ ELSE Penalized(@)]

(***************************************************************************)
(* _calculate_rag_confidence.  Every final_score the pipeline produces is  *)
(* a number, so valid_scores holds every candidate's final_score.          *)
(***************************************************************************)
ValidScores(cands) == [k \in 1..Len(cands) |-> cands[k].final_score]

\* the non-empty partitions, industries first
ScoredPartitions(industries, past_issues) ==
    (IF industries # <<>> THEN <<ValidScores(industries)>> ELSE <<>>) \o
    (IF past_issues # <<>> THEN <<ValidScores(past_issues)>> ELSE <<>>)

\* variant: the sum of the partition averages is always divided by two
ConsistencyScoreHalved(partitions) ==
    IF Len(partitions) = 0 THEN 0
    ELSE IF Len(partitions) = 1
         THEN RoundDiv(SumSeq(partitions[1]), 2 * Len(partitions[1]))
         ELSE RoundDiv(SumSeq(partitions[1]) * Len(partitions[2])
                         + SumSeq(partitions[2]) * Len(partitions[1]),
                       2 * Len(partitions[1]) * Len(partitions[2]))

\* lines 314-330: round(total_avg_score / count, 1) with the averages kept exact
ConsistencyScore(partitions) ==
    IF Len(partitions) = 0 THEN 0
    ELSE IF Len(partitions) = 1
         THEN RoundDiv(SumSeq(partitions[1]), Len(partitions[1]))
         ELSE RoundDiv(SumSeq(partitions[1]) * Len(partitions[2])
                         + SumSeq(partitions[2]) * Len(partitions[1]),
                       2 * Len(partitions[1]) * Len(partitions[2]))

\* lines 333-350: round(sum(peak_scores) / len(peak_scores), 1)
PeakRelevanceScore(partitions) ==
    IF Len(partitions) = 0 THEN 0
    ELSE RoundDiv(SumSeq([k \in 1..Len(partitions) |-> MaxSeq(partitions[k])]),
                  Len(partitions))

CalculateRagConfidence(industries, past_issues) ==
    IF industries = <<>> /\ past_issues = <<>>
    THEN [consistency_score |-> 0, peak_relevance_score |-> 0]
    ELSE [consistency_score |-> ConsistencyScore(ScoredPartitions(industries, past_issues)),
          peak_relevance_score |-> PeakRelevanceScore(ScoredPartitions(industries, past_issues))]

(***************************************************************************)
(* analyze_issues_with_rag: the two dictionaries it appends.               *)
(***************************************************************************)
\* variant: the enriched issue is built from the title alone
EnrichedIssueTitleOnly(issue, industries, past_issues, rag_confidence) ==
    [related_industries |-> industries,
     related_past_issues |-> past_issues,
     rag_confidence |-> rag_confidence] @@ [title |-> issue.title]

\* lines 86-91
EnrichedIssue(issue, industries, past_issues, rag_confidence) ==
    [related_industries |-> industries,
     related_past_issues |-> past_issues,
     rag_confidence |-> rag_confidence] @@ issue

\* lines 100-106
FailedIssue(issue, e) ==
    [related_industries |-> <<>>,
     related_past_issues |-> <<>>,
     rag_confidence |-> [consistency_score |-> 0, peak_relevance_score |-> 0],
     error |-> e] @@ issue


(***************************************************************************)
(* What the external services can answer.  An environment is "rich" (the   *)
(* full bounded repertoire), "small" (a few answers of every kind) or      *)
(* "down" (every call raises).                                             *)
(***************************************************************************)
Names == <<"A", "B", "C", "D">>

RawScores == {4000, 9127, 12000}

Match(name, score) ==
    [score |-> score,
     metadata |-> [name |-> name, description |-> "d", start_date |-> "s", end_date |-> "e"]]

\* a match whose metadata is None ("match.metadata or {}")
BareMatch(score) == [score |-> score, metadata |-> <<>>]

MatchesAt(score) ==
    {Match(Names[k], score) : k \in 1..Len(Names)} \cup {Match("", score), BareMatch(score)}

\* the index answers a ranked list; names are introduced in the order of Names
CanFollow(matches, match) ==
    /\ matches # <<>> => matches[Len(matches)].score >= match.score
    /\ \A k \in 2..Len(Names) :
          Get(match.metadata, "name", None) = Names[k] =>
              \E j \in 1..Len(matches) : Get(matches[j].metadata, "name", None) = Names[k - 1]

RECURSIVE RankedMatches(_)
RankedMatches(n) ==
    IF n = 0 THEN {<<>>}
    ELSE LET shorter == RankedMatches(n - 1)
         IN  shorter \cup
             {Append(m, match) : <<m, match>> \in
                 {mm \in shorter \X UNION {MatchesAt(sc) : sc \in RawScores} :
                     Len(mm[1]) = n - 1 /\ CanFollow(mm[1], mm[2])}}

RichSearchResults == RankedMatches(MaxMatches)

SmallSearchResults == {<<>>, <<Match("A", 9127)>>}

MediumSearchResults ==
    {<<>>, <<Match("A", 9127)>>, <<Match("A", 12000), Match("B", 4000)>>}

TripleSearchResults ==
    {<<>>, <<Match("A", 12000), Match("B", 9127), Match("C", 4000)>>}

SearchResults(env) ==
    CASE env = "rich" -> RichSearchResults
      [] env = "small" -> SmallSearchResults
      [] env = "medium" -> MediumSearchResults
      [] env = "triple" -> TripleSearchResults
      [] OTHER -> {}

\* one entry of the re-ranker's "candidates" list
Entry(field_name, name, score, reason) ==
    (field_name :> name) @@ [score |-> score, reason |-> reason]

RECURSIVE SeqsUpTo(_, _)
SeqsUpTo(S, n) ==
    IF n = 0 THEN {<<>>}
    ELSE LET shorter == SeqsUpTo(S, n - 1)
         IN  shorter \cup {Append(q, e) : <<q, e>> \in {qe \in shorter \X S : Len(qe[1]) = n - 1}}

OddEntries(field_name) ==
    {Entry(field_name, name, sr[1], sr[2]) :
        name \in {"A", "B", "Z"},
        sr \in {<<Num(90), "r">>, <<Num(200), "r">>, <<Num(90), "">>}}
    \cup {[score |-> Num(90), reason |-> "r"],
          Entry(field_name, "A", Str("9"), "r"),
          (field_name :> "A"),
          NotADict}

\* answers that mention every candidate, in the order of the candidates
RECURSIVE FullAnswers(_, _)
FullAnswers(field_name, names) ==
    IF names = <<>> THEN {<<>>}
    ELSE {<<Entry(field_name, Head(names), Num(sc), "r")>> \o rest :
             sc \in {50, 90}, rest \in FullAnswers(field_name, Tail(names))}

RerankAnswers(env, mode, vector_cands) ==
    CASE env = "rich" ->
             SeqsUpTo(OddEntries(FieldName(mode)), MaxAi) \cup
             FullAnswers(FieldName(mode), [k \in 1..Len(vector_cands) |-> vector_cands[k].name])
      [] env = "small" ->
             {<<Entry(FieldName(mode), "A", Num(90), "r")>>,
              <<Entry(FieldName(mode), "A", Num(200), "r")>>,
              <<Entry(FieldName(mode), "A", Str("9"), "r")>>}
      [] env = "medium" ->
             {<<Entry(FieldName(mode), "A", Num(200), "r")>>} \cup
             FullAnswers(FieldName(mode), [k \in 1..Len(vector_cands) |-> vector_cands[k].name])
      [] env = "triple" ->
             {[k \in 1..Len(vector_cands) |->
                   Entry(FieldName(mode), vector_cands[k].name, Num(90), "r")]}
      [] OTHER -> {}

\* what chain.invoke of the verifier can return
Verdicts(env) ==
    CASE env = "rich" ->
             {[is_grounded |-> TRUE, supporting_quote |-> "q", unverified_reason |-> ""],
              [is_grounded |-> FALSE, supporting_quote |-> "", unverified_reason |-> "why"],
              [supporting_quote |-> "", unverified_reason |-> "why"],
              NotADict}
      [] env \in {"small", "medium"} ->
             {[is_grounded |-> TRUE, supporting_quote |-> "q", unverified_reason |-> ""],
              [is_grounded |-> FALSE, supporting_quote |-> "", unverified_reason |-> "why"],
              NotADict}
      [] env = "triple" -> {NotADict}
      [] OTHER -> {}

(***************************************************************************)
(* State machine.                                                          *)
(***************************************************************************)
NoCalls == [embed |-> 0, search |-> 0, rerank |-> 0, verify |-> 0]

Threads == {"t1", "t2"}

Kinds == {"database", "rag", "pipeline"}

\* the None of a service global; instances are numbered from 1
NoInstance == 0

IdleCaller ==
    [pc |-> "idle", op |-> None, calls |-> 0, success_count |-> 0, total_services |-> 0,
     got |-> {}, returned |-> None]

\* services/__init__.py, lines 39-43: the module as imported
InitServices ==
    /\ initialization_lock = None
    /\ initialized = FALSE
    /\ database_service = NoInstance
    /\ rag_service = NoInstance
    /\ pipeline_service = NoInstance
    /\ created = [k \in Kinds |-> 0]
    /\ callers = [t \in Threads |-> IdleCaller]

Issue(k) == [title |-> k, rank |-> k]

IssueList(n) == [k \in 1..n |-> Issue(k)]

(***************************************************************************)
(* background_pipeline.py, services/pipeline_service.py and                *)
(* services/database_service.py: the data of one scheduled update.         *)
(***************************************************************************)
\* the calls of run_scheduled_update that share the executor's event loop
Tasks == {"a", "b"}

\* calls of run_scheduled_update per task
MaxRuns == 2

\* pipeline_service.py lines 63, 125, 134: the steps execute_full_pipeline records, in order
PipelineSteps == <<"crawling_and_filtering", "rag_analysis", "api_preparation">>

\* an entry of filtered_issues that is a dictionary, and one that is a string
DictItem(k) == [dict |-> Issue(k)]

TextItem == [text |-> "t"]

IsDictItem(item) == "dict" \in DOMAIN item

\* what crawl_and_filter_news can put under "filtered_issues" (line 61, lines 71-103):
\* nothing, null, a list, a dictionary with or without "selected_issues"
FilteredShapes ==
    {[kind |-> "missing"], [kind |-> "null"], [kind |-> "other_dict"]}
    \cup {[kind |-> k, items |-> items] :
            k \in {"list", "selected"},
            items \in {<<>>, <<DictItem(1)>>, <<DictItem(1), DictItem(2)>>,
                       <<DictItem(2), DictItem(1)>>,
                       <<TextItem>>, <<DictItem(1), TextItem>>}}

NotCrawled == [kind |-> "not_crawled"]

\* line 61: len(crawling_result.get("filtered_issues", [])) raises on null
LenRaises(raw_filtered) == raw_filtered.kind = "null"

\* lines 91-100: a list of non-dictionaries becomes a list of numbered dictionaries
ConvertedItems(items) == [i \in 1..Len(items) |-> DictItem(i)]

\* lines 71-106: the issues handed to the RAG analysis, or the ValueError
\* variant: an empty selection is handed on
ExtractFilteredIssuesKeepsEmpty(raw_filtered) ==
    IF raw_filtered.kind = "selected"
    THEN Ok(raw_filtered.items)
    ELSE IF raw_filtered.kind = "list"
         THEN IF raw_filtered.items # <<>> /\ ~IsDictItem(raw_filtered.items[1])
              THEN Ok(ConvertedItems(raw_filtered.items))
              ELSE Ok(raw_filtered.items)
         ELSE Ok(<<>>)

ExtractFilteredIssues(raw_filtered) ==
    IF raw_filtered.kind = "selected"
    THEN IF raw_filtered.items = <<>> THEN Raised("ValueError") ELSE Ok(raw_filtered.items)
    ELSE IF raw_filtered.kind = "list" /\ raw_filtered.items # <<>>
         THEN IF IsDictItem(raw_filtered.items[1])
              THEN Ok(raw_filtered.items)
              ELSE Ok(ConvertedItems(raw_filtered.items))
         ELSE Raised("ValueError")

\* rag_service.py lines 67-112 as the pipeline sees them: one enriched or failed
\* dictionary per issue, or the AttributeError of line 73 on an entry that is no dictionary
RagOutcomes(issues) ==
    IF \E i \in 1..Len(issues) : ~IsDictItem(issues[i])
    THEN {Raised("AttributeError")}
    ELSE {Ok([i \in 1..Len(issues) |->
                 IF i \in failed
                 THEN FailedIssue(issues[i].dict, "e")
                 ELSE EnrichedIssue(issues[i].dict, <<>>, <<>>,
                                    CalculateRagConfidence(<<>>, <<>>))]) :
            failed \in SUBSET (1..Len(issues))}

\* pipeline_service.py lines 204-222: the API form of one enriched issue; the
\* confidence is handed on as the dictionary the RAG analysis built
ApiIssue(issue) ==
    [title |-> issue.title,
     rank |-> issue.rank,
     related_industries |-> Get(issue, "related_industries", <<>>),
     related_past_issues |-> Get(issue, "related_past_issues", <<>>),
     rag_confidence |-> Get(issue, "rag_confidence",
                            [consistency_score |-> 0, peak_relevance_score |-> 0])]

\* line 226: list.sort by rank, ascending and stable
InsertByRank(sorted, api_issue) ==
    LET before == Cardinality({i \in 1..Len(sorted) : sorted[i].rank <= api_issue.rank})
    IN  SubSeq(sorted, 1, before) \o <<api_issue>> \o SubSeq(sorted, before + 1, Len(sorted))

RECURSIVE SortedByRank(_, _)
SortedByRank(api_issues, sorted) ==
    IF api_issues = <<>>
    THEN sorted
    ELSE SortedByRank(Tail(api_issues), InsertByRank(sorted, Head(api_issues)))

\* lines 184-228: the selected issues of the API data
PrepareApiData(enriched) ==
    SortedByRank([i \in 1..Len(enriched) |-> ApiIssue(enriched[i])], <<>>)

\* lines 39-47: the result dictionary as execute_full_pipeline creates it
NewResult == [final_status |-> "running", steps_completed |-> <<>>, api_ready_data |-> <<>>]

NoResult == [final_status |-> "none", steps_completed |-> <<>>, api_ready_data |-> <<>>]

\* config.py line 25: the connection is opened with autocommit on
Autocommit == TRUE

\* the row of news_issues with its rows of related_industries and related_past_issues
Row(issue_data) ==
    [title |-> issue_data.title,
     ranking |-> issue_data.rank,
     rag_confidence |-> issue_data.rag_confidence.num,
     industries |-> issue_data.related_industries,
     past_issues |-> issue_data.related_past_issues]

\* what an earlier run has stored
OldRow == [title |-> 0, ranking |-> 1, rag_confidence |-> 0,
           industries |-> <<>>, past_issues |-> <<>>]

Snapshot(db) == [news_issues |-> db.news_issues, pipeline_logs |-> db.pipeline_logs]

\* connection.commit()
Committed(db) == [db EXCEPT !.committed = Snapshot(db)]

\* connection.rollback()
RolledBack(db) ==
    [db EXCEPT !.news_issues = db.committed.news_issues,
               !.pipeline_logs = db.committed.pipeline_logs]

\* cursor.execute of a DELETE or an INSERT that leaves these rows: committed at
\* once when autocommit is on
Statement(db, rows, logs) ==
    IF Autocommit
    THEN Committed([db EXCEPT !.news_issues = rows, !.pipeline_logs = logs])
    ELSE [db EXCEPT !.news_issues = rows, !.pipeline_logs = logs]

\* the statement of save_pipeline_result at which mysql raises its Error, if any
Faults == {"none", "delete", "insert", "log", "commit"}

\* database_service.py lines 173-237 for one issue: float() of the confidence
\* (line 198) raises TypeError on a dictionary; the INSERTs may raise Error
SaveNewsIssue(db, issue_data, fault) ==
    IF ~IsNum(issue_data.rag_confidence)
    THEN [raised |-> "TypeError", db |-> db]
    ELSE IF fault = "insert"
         THEN [raised |-> "Error", db |-> db]
         ELSE [raised |-> None,
               db |-> Statement(db, Append(db.news_issues, Row(issue_data)),
                                db.pipeline_logs)]

\* lines 148-158: the loop over the selected issues, from issue k on
RECURSIVE SaveIssues(_, _, _, _)
SaveIssues(db, selected_issues, k, fault) ==
    IF k > Len(selected_issues)
    THEN [raised |-> None, db |-> db]
    ELSE LET saved == SaveNewsIssue(db, selected_issues[k], fault)
         IN  IF saved.raised # None
             THEN saved
             ELSE SaveIssues(saved.db, selected_issues, k + 1, fault)

\* lines 128-171: what save_pipeline_result raises (None when it returns) and
\* the database it leaves.  "except Error" (line 166) rolls back and re-raises
\* an Error of mysql; any other exception passes it by
SavePipelineResult(db, result, fault) ==
    IF db.connection # "connected"
    THEN [raised |-> "Exception", db |-> db]
    ELSE IF fault = "delete"
    THEN [raised |-> "Error", db |-> RolledBack(db)]
    ELSE LET deleted == Statement(db, <<>>, db.pipeline_logs)
             inserted == SaveIssues(deleted, result.api_ready_data, 1, fault)
             logged == Statement(inserted.db, inserted.db.news_issues,
                                 inserted.db.pipeline_logs + 1)
         IN  IF inserted.raised = "TypeError"
             THEN inserted
             ELSE IF inserted.raised = "Error"
             THEN [raised |-> "Error", db |-> RolledBack(inserted.db)]
             ELSE IF fault = "log"
             THEN [raised |-> "Error", db |-> RolledBack(inserted.db)]
             ELSE IF fault = "commit"
             THEN [raised |-> "Error", db |-> RolledBack(logged)]
             ELSE [raised |-> None, db |-> Committed(logged)]

\* a task that is not inside run_scheduled_update
IdleTask ==
    [pc |-> "idle", runs |-> 0, skipped |-> 0, called |-> <<>>,
     crawling_result |-> NotCrawled, filtered |-> <<>>, enriched |-> <<>>,
     result |-> NoResult, outcome |-> "none", saved |-> "none",
     committed_before |-> Snapshot([news_issues |-> <<>>, pipeline_logs |-> 0])]

\* before BackgroundPipelineExecutor is constructed: no connection yet, and
\* the tables hold what an earlier run has committed
InitExecutor ==
    /\ is_running = FALSE
    /\ current_task = None
    /\ tasks = [t \in Tasks |-> IdleTask]
    /\ database = [connection |-> "unopened",
                   news_issues |-> <<OldRow>>, pipeline_logs |-> 1,
                   committed |-> [news_issues |-> <<OldRow>>, pipeline_logs |-> 1]]
    /\ result_files = 0


InitWith(issues) ==
    /\ filtered_issues = issues
    /\ enriched_issues = <<>>
    /\ issue_idx = 1
    /\ part = "industry"
    /\ pc = IF issues = <<>> THEN "loop_done" ELSE "vector_search"
    /\ search_results = <<>>
    /\ vector_candidates = <<>>
    /\ ai_candidates = <<>>
    /\ combined_candidates = <<>>
    /\ verified_candidates = <<>>
    /\ related_industries = <<>>
    /\ related_past_issues = <<>>
    /\ calls = NoCalls
    /\ failures = {}
    /\ InitServices
    /\ InitExecutor

Init == \E n \in 0..MaxIssues : InitWith(IssueList(n))

\* the locals of one partition's analysis are gone once it has returned
ForgetPartition ==
    /\ search_results' = <<>>
    /\ vector_candidates' = <<>>
    /\ ai_candidates' = <<>>
    /\ combined_candidates' = <<>>
    /\ verified_candidates' = <<>>
    /\ calls' = NoCalls

\* the for loop of line 72 moves to the next issue, or ends
NextIssue ==
    /\ issue_idx' = issue_idx + 1
    /\ pc' = IF issue_idx + 1 > Len(filtered_issues) THEN "loop_done" ELSE "vector_search"
    /\ part' = "industry"
    /\ related_industries' = <<>>
    /\ related_past_issues' = <<>>
    /\ ForgetPartition
    /\ UNCHANGED filtered_issues

\* variant: the handler drops the failed issue
ExceptBlockSkips(e) ==
    /\ UNCHANGED enriched_issues
    /\ failures' = failures \cup {<<part, "issue">>}
    /\ NextIssue

\* variant: the handler records the failed issue and leaves the loop
ExceptBlockBreaks(e) ==
    /\ enriched_issues' = Append(enriched_issues, FailedIssue(filtered_issues[issue_idx], e))
    /\ issue_idx' = issue_idx + 1
    /\ pc' = "loop_done"
    /\ part' = "industry"
    /\ related_industries' = <<>>
    /\ related_past_issues' = <<>>
    /\ failures' = failures \cup {<<part, "issue">>}
    /\ ForgetPartition
    /\ UNCHANGED filtered_issues

\* lines 97-107: an exception raised anywhere in the try block of the current issue
ExceptBlock(e) ==
    /\ enriched_issues' = Append(enriched_issues, FailedIssue(filtered_issues[issue_idx], e))
    /\ failures' = failures \cup {<<part, "issue">>}
    /\ NextIssue

\* the log of the current issue: empty when the issue is just starting
LoggedSoFar == IF part = "industry" THEN {} ELSE failures

\* variant: a failed embedding call is made once more before giving up
VectorSearchRetries(env) ==
    /\ pc = "vector_search"
    /\ UNCHANGED <<servicevars, executorvars>>
    /\ \/ /\ calls' = [calls EXCEPT !.embed = @ + 2]              \* embed_query raises twice
          /\ failures' = LoggedSoFar \cup {<<part, "embed">>}
          /\ search_results' = <<>>
          /\ vector_candidates' = <<>>
       \/ /\ calls' = [calls EXCEPT !.embed = @ + 1, !.search = @ + 1]  \* index.query raises
          /\ failures' = LoggedSoFar \cup {<<part, "search">>}
          /\ search_results' = <<>>
          /\ vector_candidates' = <<>>
       \/ \E matches \in SearchResults(env) :
          /\ calls' = [calls EXCEPT !.embed = @ + 1, !.search = @ + 1]
          /\ failures' = LoggedSoFar
          /\ search_results' = matches
          /\ vector_candidates' = BuildCandidates(matches, part, <<>>)
    /\ pc' = "ai_rerank"
    /\ UNCHANGED <<filtered_issues, enriched_issues, issue_idx, part, ai_candidates,
                   combined_candidates, verified_candidates, related_industries,
                   related_past_issues>>

\* _vector_search, lines 152-175
VectorSearch(env) ==
    /\ pc = "vector_search"
    /\ UNCHANGED <<servicevars, executorvars>>
    /\ \/ /\ calls' = [calls EXCEPT !.embed = @ + 1]              \* embed_query raises
          /\ failures' = LoggedSoFar \cup {<<part, "embed">>}
          /\ search_results' = <<>>
          /\ vector_candidates' = <<>>
       \/ /\ calls' = [calls EXCEPT !.embed = @ + 1, !.search = @ + 1]  \* index.query raises
          /\ failures' = LoggedSoFar \cup {<<part, "search">>}
          /\ search_results' = <<>>
          /\ vector_candidates' = <<>>
       \/ \E matches \in SearchResults(env) :
          /\ calls' = [calls EXCEPT !.embed = @ + 1, !.search = @ + 1]
          /\ failures' = LoggedSoFar
          /\ search_results' = matches
          /\ vector_candidates' = BuildCandidates(matches, part, <<>>)
    /\ pc' = "ai_rerank"
    /\ UNCHANGED <<filtered_issues, enriched_issues, issue_idx, part, ai_candidates,
                   combined_candidates, verified_candidates, related_industries,
                   related_past_issues>>

\* variant: the handler of _ai_rerank_candidates logs the failure and raises again
AiRerankReraises(env) ==
    /\ pc = "ai_rerank"
    /\ UNCHANGED <<servicevars, executorvars>>
    /\ IF vector_candidates = <<>>
       THEN /\ ai_candidates' = <<>>
            /\ calls' = calls
            /\ failures' = failures
            /\ search_results' = <<>>
            /\ pc' = "combine"
            /\ UNCHANGED <<filtered_issues, enriched_issues, issue_idx, part, vector_candidates,
                           combined_candidates, verified_candidates, related_industries,
                           related_past_issues>>
       ELSE \/ /\ enriched_issues' =
                      Append(enriched_issues, FailedIssue(filtered_issues[issue_idx], "Exception"))
               /\ failures' = failures \cup {<<part, "rerank">>, <<part, "issue">>}
               /\ NextIssue
            \/ \E answer \in RerankAnswers(env, part, vector_candidates) :
               /\ ai_candidates' = answer
               /\ calls' = [calls EXCEPT !.rerank = @ + 1]
               /\ failures' = failures
               /\ search_results' = <<>>
               /\ pc' = "combine"
               /\ UNCHANGED <<filtered_issues, enriched_issues, issue_idx, part,
                              vector_candidates, combined_candidates, verified_candidates,
                              related_industries, related_past_issues>>

\* _ai_rerank_candidates, lines 177-223
AiRerank(env) ==
    /\ pc = "ai_rerank"
    /\ UNCHANGED <<servicevars, executorvars>>
    /\ IF vector_candidates = <<>>
       THEN /\ ai_candidates' = <<>>
            /\ calls' = calls
            /\ failures' = failures
       ELSE /\ calls' = [calls EXCEPT !.rerank = @ + 1]
            /\ \/ /\ ai_candidates' = <<>>            \* chain.invoke raises
                  /\ failures' = failures \cup {<<part, "rerank">>}
               \/ /\ ai_candidates' = <<>>            \* result is no dict: result.get raises
                  /\ failures' = failures \cup {<<part, "rerank_result">>}
               \/ /\ ai_candidates' = <<>>            \* result has no "candidates" key
                  /\ failures' = failures
               \/ \E answer \in RerankAnswers(env, part, vector_candidates) :
                     /\ ai_candidates' = answer
                     /\ failures' = failures
    /\ search_results' = <<>>
    /\ pc' = "combine"
    /\ UNCHANGED <<filtered_issues, enriched_issues, issue_idx, part, vector_candidates,
                   combined_candidates, verified_candidates, related_industries,
                   related_past_issues>>

\* _combine_results, lines 225-251, as called at lines 125 and 144: the dict
\* built from the vector candidates (230-238), the re-ranker entries laid over
\* it (240-244), the scores (246-249), the sort (251); each stage is bound to
\* its value before the next one reads it
Combine ==
    /\ pc = "combine"
    /\ UNCHANGED <<servicevars, executorvars>>
    /\ \E from_vector \in {FromVector(vector_candidates, <<>>)} :
       \E overlaid \in {Overlay(from_vector, ai_candidates, FieldName(part))} :
       \E scored \in {IF overlaid.ok THEN Scored(overlaid.value) ELSE overlaid} :
       \E result \in {IF scored.ok THEN Ok(SortedByFinalScore(scored.value, <<>>)) ELSE scored} :
           IF result.ok
           THEN /\ combined_candidates' = result.value
                /\ verified_candidates' = <<>>
                /\ pc' = "verify"
                /\ UNCHANGED <<filtered_issues, enriched_issues, issue_idx, part,
                               search_results, vector_candidates, ai_candidates,
                               related_industries, related_past_issues, calls,
                               failures>>
           ELSE ExceptBlock(result.error)

\* one iteration of the loop of _apply_verification_layer, lines 256-269,
\* with its call of _verify_reasoning, lines 273-306
VerifyStep(env) ==
    /\ pc = "verify"
    /\ UNCHANGED <<servicevars, executorvars>>
    /\ Len(verified_candidates) < Len(VerificationScope(combined_candidates))
    /\ LET candidate == combined_candidates[Len(verified_candidates) + 1]
           Keep(verification_result) ==
               /\ verified_candidates' =
                      Append(verified_candidates, VerifiedCandidate(candidate, verification_result))
               /\ UNCHANGED <<filtered_issues, enriched_issues, issue_idx, part, pc,
                              search_results, vector_candidates, ai_candidates,
                              combined_candidates, related_industries, related_past_issues>>
       IN  IF candidate.ai_reason = ""
           THEN /\ calls' = calls
                /\ failures' = failures
                /\ Keep(NoReasonVerdict)
           ELSE \/ /\ calls' = [calls EXCEPT !.verify = @ + 1]    \* chain.invoke raises
                   /\ failures' = failures \cup {<<part, "verify", Len(verified_candidates) + 1>>}
                   /\ Keep(ErrorVerdict)
                \/ \E verification_result \in Verdicts(env) :
                      IF IsDict(verification_result)
                      THEN /\ calls' = [calls EXCEPT !.verify = @ + 1]
                           /\ failures' = failures
                           /\ Keep(verification_result)
                      ELSE ExceptBlock("AttributeError")         \* line 264: .get on a non-dict

\* variant: the confidence is computed as soon as the industries are analysed
FinalSortSkipsPastIssues ==
    /\ pc = "verify"
    /\ UNCHANGED <<servicevars, executorvars>>
    /\ Len(verified_candidates) = Len(VerificationScope(combined_candidates))
    /\ related_industries' = SortedByFinalScore(verified_candidates, <<>>)
    /\ pc' = "confidence"
    /\ UNCHANGED <<related_past_issues, part>>
    /\ ForgetPartition
    /\ UNCHANGED <<filtered_issues, enriched_issues, issue_idx, failures>>

\* variant: the verified list is returned as _apply_verification_layer left it
FinalSortSkipped ==
    /\ pc = "verify"
    /\ UNCHANGED <<servicevars, executorvars>>
    /\ Len(verified_candidates) = Len(VerificationScope(combined_candidates))
    /\ IF part = "industry"
       THEN /\ related_industries' = verified_candidates
            /\ part' = "past_issue"
            /\ pc' = "vector_search"
            /\ UNCHANGED related_past_issues
       ELSE /\ related_past_issues' = verified_candidates
            /\ pc' = "confidence"
            /\ UNCHANGED <<related_industries, part>>
    /\ ForgetPartition
    /\ UNCHANGED <<filtered_issues, enriched_issues, issue_idx, failures>>

\* lines 131 and 150, and the assignment of the result at lines 77 and 80
FinalSort ==
    /\ pc = "verify"
    /\ UNCHANGED <<servicevars, executorvars>>
    /\ Len(verified_candidates) = Len(VerificationScope(combined_candidates))
    /\ IF part = "industry"
       THEN /\ related_industries' = SortedByFinalScore(verified_candidates, <<>>)
            /\ part' = "past_issue"
            /\ pc' = "vector_search"
            /\ UNCHANGED related_past_issues
       ELSE /\ related_past_issues' = SortedByFinalScore(verified_candidates, <<>>)
            /\ pc' = "confidence"
            /\ UNCHANGED <<related_industries, part>>
    /\ ForgetPartition
    /\ UNCHANGED <<filtered_issues, enriched_issues, issue_idx, failures>>

\* lines 83-95
EmitIssue ==
    /\ pc = "confidence"
    /\ UNCHANGED <<servicevars, executorvars>>
    /\ enriched_issues' =
           Append(enriched_issues,
                  EnrichedIssue(filtered_issues[issue_idx], related_industries, related_past_issues,
                                CalculateRagConfidence(related_industries, related_past_issues)))
    /\ failures' = failures
    /\ NextIssue

\* lines 109-112
Return ==
    /\ pc = "loop_done"
    /\ UNCHANGED <<servicevars, executorvars>>
    /\ pc' = "returned"
    /\ UNCHANGED <<filtered_issues, enriched_issues, issue_idx, part, search_results,
                   vector_candidates, ai_candidates, combined_candidates,
                   verified_candidates, related_industries, related_past_issues, calls,
          failures>>

(***************************************************************************)
(* Spec: a batch of up to MaxIssues issues against the small environment.  *)
(***************************************************************************)
Next ==
    \/ VectorSearch("small")
    \/ AiRerank("small")
    \/ Combine
    \/ VerifyStep("small")
    \/ FinalSort
    \/ EmitIssue
    \/ Return

Spec == Init /\ [][Next]_vars

(***************************************************************************)
(* SpecPartition: one issue whose industry partition meets the rich        *)
(* environment; the services are down when the past_issue partition runs.  *)
(***************************************************************************)
EnvOf(p) == IF p = "industry" THEN "rich" ELSE "down"

InitPartition == InitWith(IssueList(1))

NextPartition ==
    \/ VectorSearch(EnvOf(part))
    \/ AiRerank(EnvOf(part))
    \/ Combine
    \/ VerifyStep(EnvOf(part))
    \/ FinalSort
    \/ EmitIssue
    \/ Return

SpecPartition == InitPartition /\ [][NextPartition]_vars

(***************************************************************************)
(* SpecPair: one issue whose two partitions both meet the medium           *)
(* environment, so that both candidate lists can hold several candidates.  *)
(***************************************************************************)
InitPair == InitWith(IssueList(1))

NextPair ==
    \/ VectorSearch("medium")
    \/ AiRerank("medium")
    \/ Combine
    \/ VerifyStep("medium")
    \/ FinalSort
    \/ EmitIssue
    \/ Return

SpecPair == InitPair /\ [][NextPair]_vars

(***************************************************************************)
(* SpecBatch: a batch against an environment in which every search that    *)
(* answers returns three candidates, the re-ranker gives each a reason and *)
(* the verifier raises or answers with something that is no verdict, so    *)
(* that a partition makes every call it can make and every call can fail.  *)
(* Every external call returns or raises, so the step that is enabled is   *)
(* eventually taken.                                                       *)
(***************************************************************************)
NextBatch ==
    \/ VectorSearch("triple")
    \/ AiRerank("triple")
    \/ Combine
    \/ VerifyStep("triple")
    \/ FinalSort
    \/ EmitIssue
    \/ Return

SpecBatch == Init /\ [][NextBatch]_vars /\ WF_vars(NextBatch)


(***************************************************************************)
(* services/__init__.py: the module-level service instances and the three  *)
(* functions that create them under _initialization_lock.  A thread calls  *)
(* up to MaxCalls of them, one after the other; an instance is the number  *)
(* of its construction within its kind.                                    *)
(***************************************************************************)
Ops == {"initialize_all_services", "get_pipeline_service", "get_rag_service"}

KindOf(op) == IF op = "get_pipeline_service" THEN "pipeline" ELSE "rag"

Service(kind) ==
    CASE kind = "database" -> database_service
      [] kind = "rag" -> rag_service
      [] kind = "pipeline" -> pipeline_service

\* the assignment of a newly constructed instance to the global of its kind
\* (lines 62, 73, 83, 99, 108).  What a constructor builds for itself, such as
\* the CrawlingService and the RAGService a PipelineService keeps as members
\* (pipeline_service.py, lines 23-24), is part of that instance and is not
\* counted as a service of the module.
Construct(kind) ==
    /\ created' = [created EXCEPT ![kind] = @ + 1]
    /\ database_service' = IF kind = "database" THEN created[kind] + 1 ELSE database_service
    /\ rag_service' = IF kind = "rag" THEN created[kind] + 1 ELSE rag_service
    /\ pipeline_service' = IF kind = "pipeline" THEN created[kind] + 1 ELSE pipeline_service

NoConstruct == UNCHANGED <<created, database_service, rag_service, pipeline_service>>

\* a thread calls one of the functions
Call(t, op) ==
    /\ callers[t].pc = "idle"
    /\ callers[t].calls < MaxCalls
    /\ callers' = [callers EXCEPT ![t] =
                      [@ EXCEPT !.pc = "acquire", !.op = op, !.calls = @ + 1,
                                !.success_count = 0, !.total_services = 0,
                                !.returned = None]]
    /\ UNCHANGED <<initialization_lock, initialized, database_service, rag_service,
                   pipeline_service, created>>
    /\ UNCHANGED <<ragvars, executorvars>>

\* variant: the with statement does not wait for the lock
AcquireUnlocked(t) ==
    /\ callers[t].pc = "acquire"
    /\ initialization_lock' = t
    /\ callers' = [callers EXCEPT ![t].pc = "check"]
    /\ UNCHANGED <<initialized, database_service, rag_service, pipeline_service, created>>
    /\ UNCHANGED <<ragvars, executorvars>>

\* with _initialization_lock, lines 50, 97 and 106
Acquire(t) ==
    /\ callers[t].pc = "acquire"
    /\ initialization_lock = None
    /\ initialization_lock' = t
    /\ callers' = [callers EXCEPT ![t].pc = "check"]
    /\ UNCHANGED <<initialized, database_service, rag_service, pipeline_service, created>>
    /\ UNCHANGED <<ragvars, executorvars>>

\* the function returns or raises: the with block releases the lock
Leave(t, value, obtained) ==
    /\ initialization_lock' = None
    /\ callers' = [callers EXCEPT ![t] =
                      [@ EXCEPT !.pc = "idle", !.returned = value,
                                !.got = @ \cup obtained]]

\* initialize_all_services, lines 51-57
InitializeCheck(t) ==
    /\ callers[t].pc = "check"
    /\ callers[t].op = "initialize_all_services"
    /\ IF initialized
       THEN Leave(t, "already_initialized", {})
       ELSE /\ callers' = [callers EXCEPT ![t].pc = "database"]
            /\ UNCHANGED initialization_lock
    /\ NoConstruct
    /\ UNCHANGED initialized
    /\ UNCHANGED <<ragvars, executorvars>>

\* lines 60-68: _database_service is assigned before initialize() can raise
InitializeDatabase(t) ==
    /\ callers[t].pc = "database"
    /\ IF database_service = NoInstance
       THEN /\ Construct("database")
            /\ \E ok \in BOOLEAN :
                  callers' = [callers EXCEPT ![t] =
                                 [@ EXCEPT !.pc = "rag",
                                           !.success_count = @ + (IF ok THEN 1 ELSE 0),
                                           !.total_services = @ + 1]]
       ELSE /\ NoConstruct
            /\ callers' = [callers EXCEPT ![t].pc = "rag"]
    /\ UNCHANGED <<initialization_lock, initialized>>
    /\ UNCHANGED <<ragvars, executorvars>>

\* lines 71-78 (kind "rag", then "pipeline") and 81-88 (kind "pipeline", then "done")
InitializeService(t, kind, then) ==
    /\ callers[t].pc = kind
    /\ callers[t].op = "initialize_all_services"
    /\ IF Service(kind) = NoInstance
       THEN \/ /\ Construct(kind)
               /\ callers' = [callers EXCEPT ![t] =
                                 [@ EXCEPT !.pc = then, !.success_count = @ + 1,
                                           !.total_services = @ + 1]]
            \/ /\ NoConstruct                                   \* the constructor raises
               /\ callers' = [callers EXCEPT ![t] =
                                 [@ EXCEPT !.pc = then, !.total_services = @ + 1]]
       ELSE /\ NoConstruct
            /\ callers' = [callers EXCEPT ![t].pc = then]
    /\ UNCHANGED <<initialization_lock, initialized>>
    /\ UNCHANGED <<ragvars, executorvars>>

\* lines 90-92
InitializeDone(t) ==
    /\ callers[t].pc = "done"
    /\ initialized' = TRUE
    /\ Leave(t, IF callers[t].success_count = callers[t].total_services
                 THEN "True" ELSE "False", {})
    /\ NoConstruct
    /\ UNCHANGED <<ragvars, executorvars>>

\* get_pipeline_service and get_rag_service: the test of lines 98 and 107,
\* and the return of lines 101 and 110 when the instance exists
GetCheck(t) ==
    /\ callers[t].pc = "check"
    /\ callers[t].op \in {"get_pipeline_service", "get_rag_service"}
    /\ LET kind == KindOf(callers[t].op)
       IN  IF Service(kind) = NoInstance
           THEN /\ callers' = [callers EXCEPT ![t].pc = "construct"]
                /\ UNCHANGED initialization_lock
           ELSE Leave(t, "instance", {<<kind, Service(kind)>>})
    /\ NoConstruct
    /\ UNCHANGED initialized
    /\ UNCHANGED <<ragvars, executorvars>>

\* lines 99-101 and 108-110: the lazy construction, which can raise
GetConstruct(t) ==
    /\ callers[t].pc = "construct"
    /\ LET kind == KindOf(callers[t].op)
       IN  \/ /\ Construct(kind)
              /\ Leave(t, "instance", {<<kind, created[kind] + 1>>})
           \/ /\ NoConstruct
              /\ Leave(t, "raised", {})
    /\ UNCHANGED initialized
    /\ UNCHANGED <<ragvars, executorvars>>

NextServices ==
    \/ \E t \in Threads, op \in Ops : Call(t, op)
    \/ \E t \in Threads : Acquire(t)
    \/ \E t \in Threads : InitializeCheck(t)
    \/ \E t \in Threads : InitializeDatabase(t)
    \/ \E t \in Threads : InitializeService(t, "rag", "pipeline")
    \/ \E t \in Threads : InitializeService(t, "pipeline", "done")
    \/ \E t \in Threads : InitializeDone(t)
    \/ \E t \in Threads : GetCheck(t)
    \/ \E t \in Threads : GetConstruct(t)

SpecServices == InitWith(<<>>) /\ [][NextServices]_vars

(***************************************************************************)
(* background_pipeline.py: run_scheduled_update, with the pipeline and the *)
(* save it calls.  The calls are tasks of one event loop: a task keeps the *)
(* loop from one await to the next, and the only await is the one of       *)
(* save_pipeline_result (line 88).                                         *)
(***************************************************************************)
SetTask(t, task) == tasks' = [tasks EXCEPT ![t] = task]

\* the task is at this step and has the loop
At(t, step) == tasks[t].pc = step /\ current_task = t

Completed(result, step) ==
    [result EXCEPT !.steps_completed = Append(result.steps_completed, step)]

\* lines 48-66: the executor is constructed; the connection is opened or not
NewExecutor ==
    /\ database.connection = "unopened"
    /\ \E connection \in {"connected", "failed"} :
          database' = [database EXCEPT !.connection = connection]
    /\ UNCHANGED <<ragvars, servicevars, is_running, current_task, tasks, result_files>>

\* variant: the call starts a run whether or not one is in progress
RunScheduledUpdateUnguarded(t) ==
    /\ database.connection # "unopened"
    /\ tasks[t].pc = "idle"
    /\ tasks[t].runs < MaxRuns
    /\ current_task = None
    /\ is_running' = TRUE
    /\ current_task' = t
    /\ SetTask(t, [IdleTask EXCEPT !.pc = "crawl",
                                   !.runs = tasks[t].runs + 1,
                                   !.skipped = tasks[t].skipped,
                                   !.result = NewResult])
    /\ UNCHANGED <<ragvars, servicevars, database, result_files>>

\* lines 70-74, and pipeline_service.py lines 39-47: the call returns at once
\* when a run is in progress, else it sets the flag and starts the pipeline
RunScheduledUpdate(t) ==
    /\ database.connection # "unopened"
    /\ tasks[t].pc = "idle"
    /\ tasks[t].runs < MaxRuns
    /\ current_task = None
    /\ IF is_running
       THEN /\ SetTask(t, [tasks[t] EXCEPT !.runs = @ + 1, !.skipped = @ + 1])
            /\ UNCHANGED <<is_running, current_task>>
       ELSE /\ is_running' = TRUE
            /\ current_task' = t
            /\ SetTask(t, [IdleTask EXCEPT !.pc = "crawl",
                                           !.runs = tasks[t].runs + 1,
                                           !.skipped = tasks[t].skipped,
                                           !.result = NewResult])
    /\ UNCHANGED <<ragvars, servicevars, database, result_files>>

\* pipeline_service.py lines 55-63: crawl_and_filter_news raises or returns,
\* and the count of line 61 raises on a null
Crawl(t) ==
    /\ At(t, "crawl")
    /\ \E crawled \in {Raised("crawl")} \cup {Ok(shape) : shape \in FilteredShapes} :
          IF ~crawled.ok
          THEN SetTask(t, [tasks[t] EXCEPT !.called = Append(@, "crawl"),
                                           !.pc = "except"])
          ELSE IF LenRaises(crawled.value)
          THEN SetTask(t, [tasks[t] EXCEPT !.called = Append(@, "crawl"),
                                           !.crawling_result = crawled.value,
                                           !.pc = "except"])
          ELSE SetTask(t, [tasks[t] EXCEPT
                               !.called = Append(@, "crawl"),
                               !.crawling_result = crawled.value,
                               !.result = Completed(@, "crawling_and_filtering"),
                               !.pc = "extract"])
    /\ UNCHANGED <<ragvars, servicevars, is_running, current_task, database, result_files>>

\* lines 70-106
Extract(t) ==
    /\ At(t, "extract")
    /\ LET extracted == ExtractFilteredIssues(tasks[t].crawling_result)
       IN  IF extracted.ok
           THEN SetTask(t, [tasks[t] EXCEPT !.filtered = extracted.value, !.pc = "rag"])
           ELSE SetTask(t, [tasks[t] EXCEPT !.pc = "except"])
    /\ UNCHANGED <<ragvars, servicevars, is_running, current_task, database, result_files>>

\* lines 110-125
RagAnalysis(t) ==
    /\ At(t, "rag")
    /\ \E analysed \in RagOutcomes(tasks[t].filtered) :
          IF analysed.ok
          THEN SetTask(t, [tasks[t] EXCEPT !.called = Append(@, "rag"),
                                           !.enriched = analysed.value,
                                           !.result = Completed(@, "rag_analysis"),
                                           !.pc = "prepare"])
          ELSE SetTask(t, [tasks[t] EXCEPT !.called = Append(@, "rag"),
                                           !.pc = "except"])
    /\ UNCHANGED <<ragvars, servicevars, is_running, current_task, database, result_files>>

\* lines 132-134
PrepareApi(t) ==
    /\ At(t, "prepare")
    /\ SetTask(t, [tasks[t] EXCEPT
                       !.called = Append(@, "prepare"),
                       !.result = Completed([@ EXCEPT !.api_ready_data =
                                                PrepareApiData(tasks[t].enriched)],
                                            "api_preparation"),
                       !.pc = "finish"])
    /\ UNCHANGED <<ragvars, servicevars, is_running, current_task, database, result_files>>

\* lines 137-165: the result becomes a success, _save_pipeline_result writes
\* the file (or fails and answers ""), and the result is returned
Finish(t) ==
    /\ At(t, "finish")
    /\ \E written \in BOOLEAN :
          result_files' = IF written THEN result_files + 1 ELSE result_files
    /\ SetTask(t, [tasks[t] EXCEPT !.called = Append(@, "save_file"),
                                   !.result = [@ EXCEPT !.final_status = "success"],
                                   !.outcome = "returned",
                                   !.pc = "await_save"])
    /\ UNCHANGED <<ragvars, servicevars, is_running, current_task, database>>

\* variant: the handler returns the failed result
ExceptReturns(t) ==
    /\ At(t, "except")
    /\ SetTask(t, [tasks[t] EXCEPT !.result = [@ EXCEPT !.final_status = "failed"],
                                   !.outcome = "returned",
                                   !.pc = "finally"])
    /\ UNCHANGED <<ragvars, servicevars, is_running, current_task, database, result_files>>

\* lines 167-182, and background_pipeline.py lines 110-114: the result is
\* marked failed and an exception is raised instead; the caller logs it
Except(t) ==
    /\ At(t, "except")
    /\ SetTask(t, [tasks[t] EXCEPT !.result = [@ EXCEPT !.final_status = "failed"],
                                   !.outcome = "raised",
                                   !.pc = "finally"])
    /\ UNCHANGED <<ragvars, servicevars, is_running, current_task, database, result_files>>

\* background_pipeline.py lines 85-88: the await, where the loop may turn to
\* another task
AwaitSave(t) ==
    /\ At(t, "await_save")
    /\ current_task' = None
    /\ SetTask(t, [tasks[t] EXCEPT !.pc = "save"])
    /\ UNCHANGED <<ragvars, servicevars, is_running, database, result_files>>

\* database_service.py lines 128-171, and background_pipeline.py lines 89-91:
\* the save runs without an await of its own; whatever it raises is logged
Save(t) ==
    /\ tasks[t].pc = "save"
    /\ current_task = None
    /\ current_task' = t
    /\ \E fault \in Faults :
          LET saved == SavePipelineResult(database, tasks[t].result, fault)
          IN  /\ database' = saved.db
              /\ SetTask(t, [tasks[t] EXCEPT
                                 !.committed_before = database.committed,
                                 !.saved = IF saved.raised = None
                                           THEN "returned" ELSE "raised",
                                 !.pc = "finally"])
    /\ UNCHANGED <<ragvars, servicevars, is_running, result_files>>

\* background_pipeline.py lines 116-117: the flag is cleared and the call
\* returns, its locals with it
Finally(t) ==
    /\ At(t, "finally")
    /\ is_running' = FALSE
    /\ current_task' = None
    /\ SetTask(t, [IdleTask EXCEPT !.runs = tasks[t].runs, !.skipped = tasks[t].skipped])
    /\ UNCHANGED <<ragvars, servicevars, database, result_files>>

NextExecutor ==
    \/ NewExecutor
    \/ \E t \in Tasks : RunScheduledUpdate(t)
    \/ \E t \in Tasks : Crawl(t)
    \/ \E t \in Tasks : Extract(t)
    \/ \E t \in Tasks : RagAnalysis(t)
    \/ \E t \in Tasks : PrepareApi(t)
    \/ \E t \in Tasks : Finish(t)
    \/ \E t \in Tasks : Except(t)
    \/ \E t \in Tasks : AwaitSave(t)
    \/ \E t \in Tasks : Save(t)
    \/ \E t \in Tasks : Finally(t)

SpecExecutor == InitWith(<<>>) /\ [][NextExecutor]_vars


(***************************************************************************)
(* Properties.                                                             *)
(***************************************************************************)
HasError(issue) == "error" \in DOMAIN issue

ZeroConfidence == [consistency_score |-> 0, peak_relevance_score |-> 0]

\* _combine_results has returned for the current partition
Combined == pc = "verify"

\* the loop of _apply_verification_layer is over: verified_candidates is its return value
VerifyReturned == pc = "verify" /\ Len(verified_candidates) >= Len(VerificationScope(combined_candidates))

\* the name a re-ranker entry carries under the key of the current partition
EntryName(entry) == Get(entry, FieldName(part), None)

\* position of the first match that carries the name
FirstMatch(matches, name) ==
    CHOOSE j \in 1..Len(matches) :
        /\ Get(matches[j].metadata, "name", None) = name
        /\ \A h \in 1..(j - 1) : Get(matches[h].metadata, "name", None) # name

\* C1: analyze_issues_with_rag emits exactly one enriched issue per input
\* issue, in input order, whatever the external calls return or raise: after
\* every iteration the output holds one entry per issue visited, entry k made
\* from input k, and the call returns a list as long as its input.
C1_OnePerIssueInOrder ==
    /\ pc \in {"vector_search", "ai_rerank", "combine", "verify", "confidence",
               "loop_done", "returned"}
    /\ Len(enriched_issues) = issue_idx - 1
    /\ \A k \in 1..Len(enriched_issues) :
          /\ k <= Len(filtered_issues)
          /\ enriched_issues[k].title = filtered_issues[k].title
          /\ enriched_issues[k].rank = filtered_issues[k].rank
    /\ pc \in {"loop_done", "returned"} => Len(enriched_issues) = Len(filtered_issues)

C1_Witness ==
    /\ pc = "returned"
    /\ Len(filtered_issues) = 2
    /\ HasError(enriched_issues[1])
    /\ ~ HasError(enriched_issues[2])
    /\ enriched_issues[2].related_industries # <<>>

\* C2: an issue whose enrichment raised is emitted with empty candidate lists,
\* a zeroed confidence and an error note, and the loop goes on to every later
\* issue: the batch ends only after the last input issue.
C2_FailedIssueEmittedBatchContinues ==
    \A k \in 1..Len(enriched_issues) :
        HasError(enriched_issues[k]) =>
            /\ enriched_issues[k].related_industries = <<>>
            /\ enriched_issues[k].related_past_issues = <<>>
            /\ enriched_issues[k].rag_confidence = ZeroConfidence
            /\ enriched_issues[k].error \in {"TypeError", "AttributeError"}
            /\ issue_idx > k
            /\ pc \in {"loop_done", "returned"} =>
                   \A j \in (k + 1)..Len(filtered_issues) :
                       /\ j <= Len(enriched_issues)
                       /\ enriched_issues[j].title = filtered_issues[j].title

C2_Witness ==
    /\ pc = "returned"
    /\ Len(enriched_issues) = 2
    /\ HasError(enriched_issues[1])
    /\ enriched_issues[1].error = "TypeError"
    /\ enriched_issues[2].rag_confidence # ZeroConfidence

\* C3: the output of combine holds no name that is absent from
\* vector_candidates, whatever names the re-ranker's entries carry.
C3_NoFabricatedCandidate ==
    Combined =>
        \A k \in 1..Len(combined_candidates) :
            \E j \in 1..Len(vector_candidates) :
                vector_candidates[j].name = combined_candidates[k].name

C3_Witness ==
    /\ Combined
    /\ Len(combined_candidates) >= 2
    /\ \E e \in 1..Len(ai_candidates) : EntryName(ai_candidates[e]) = "Z"

\* C4: every name of vector_candidates appears exactly once in the output of
\* combine, and a candidate no re-ranker entry names has ai_score 0 and an
\* empty ai_reason.
C4_EveryVectorCandidateOnce ==
    Combined =>
        /\ \A j \in 1..Len(vector_candidates) :
              Cardinality({k \in 1..Len(combined_candidates) :
                              combined_candidates[k].name = vector_candidates[j].name}) = 1
        /\ \A k \in 1..Len(combined_candidates) :
              (\A e \in 1..Len(ai_candidates) :
                   EntryName(ai_candidates[e]) # combined_candidates[k].name)
              => /\ combined_candidates[k].ai_score = 0
                 /\ combined_candidates[k].ai_reason = ""

C4_Witness ==
    /\ Combined
    /\ Len(vector_candidates) = 3
    /\ ai_candidates # <<>>
    /\ \E k \in 1..Len(combined_candidates) :
          /\ combined_candidates[k].ai_score = 0
          /\ \A e \in 1..Len(ai_candidates) :
                EntryName(ai_candidates[e]) # combined_candidates[k].name
    /\ \E k \in 1..Len(combined_candidates) : combined_candidates[k].ai_score > 0

\* C5: every candidate in the output of combine has
\* final_score = round(vector_score * 0.3 + ai_score * 0.7, 1)
\* (in tenths: (3 * vector_score[1/100] + 70 * ai_score[1/10]) / 100, rounded).
C5_FinalScoreFormula ==
    Combined =>
        \A k \in 1..Len(combined_candidates) :
            combined_candidates[k].final_score =
                RoundDiv(3 * combined_candidates[k].vector_score
                           + 70 * combined_candidates[k].ai_score, 100)

C5_Witness ==
    /\ Combined
    /\ \E k \in 1..Len(combined_candidates) :
          /\ combined_candidates[k].vector_score = 913
          /\ combined_candidates[k].ai_score = 90
          /\ combined_candidates[k].final_score = 90
    /\ \E k \in 1..Len(combined_candidates) :
          /\ combined_candidates[k].vector_score = 400
          /\ combined_candidates[k].ai_score = 0
          /\ combined_candidates[k].final_score = 12

\* C6: retrieve returns one candidate per distinct non-empty name among the
\* matches, in order of first occurrence, with the similarity of that first
\* occurrence; a match without a name yields no candidate.
C6_RetrieveDedupes ==
    pc = "ai_rerank" =>
        /\ {vector_candidates[k].name : k \in 1..Len(vector_candidates)} =
               {Get(search_results[j].metadata, "name", None) : j \in 1..Len(search_results)}
                   \ {None, ""}
        /\ \A k, l \in 1..Len(vector_candidates) :
              k < l =>
                  /\ vector_candidates[k].name # vector_candidates[l].name
                  /\ FirstMatch(search_results, vector_candidates[k].name)
                         < FirstMatch(search_results, vector_candidates[l].name)
        /\ \A k \in 1..Len(vector_candidates) :
              vector_candidates[k].similarity =
                  RoundDiv(search_results[FirstMatch(search_results,
                                                     vector_candidates[k].name)].score, 10)

C6_Witness ==
    /\ pc = "ai_rerank"
    /\ Len(search_results) = 4
    /\ Len(vector_candidates) = 2
    /\ \E j, h \in 1..Len(search_results) :
          /\ j < h
          /\ Get(search_results[j].metadata, "name", None) = "A"
          /\ Get(search_results[h].metadata, "name", None) = "A"
          /\ search_results[j].score > search_results[h].score
    /\ \E j \in 1..Len(search_results) : "name" \notin DOMAIN search_results[j].metadata

\* C7: one call of verify makes at most top_n (3) calls to the verification
\* reasoner, however many candidates it is given.
C7_VerifyCallsBounded == calls.verify <= 3

C7_Witness ==
    /\ VerifyReturned
    /\ Len(combined_candidates) = 4
    /\ \A k \in 1..4 : combined_candidates[k].ai_reason # ""
    /\ calls.verify = 3

C9_UngroundedHalvedOnce ==
    pc = "verify" =>
        \A j \in 1..Len(verified_candidates) :
            ("is_grounded" \in DOMAIN verified_candidates[j].verification
             /\ verified_candidates[j].verification.is_grounded = FALSE)
            => verified_candidates[j].final_score =
                   RoundDiv(5 * combined_candidates[j].final_score, 10)

C9_Witness ==
    /\ pc = "verify"
    /\ \E j \in 1..Len(verified_candidates) :
          /\ verified_candidates[j].verification.unverified_reason = "why"
          /\ "is_grounded" \in DOMAIN verified_candidates[j].verification
          /\ verified_candidates[j].verification.is_grounded = FALSE
          /\ combined_candidates[j].final_score = 65
          /\ verified_candidates[j].final_score = 32

\* C10 as stated: for the lists the pipeline passes to aggregate,
\* consistency_score and peak_relevance_score lie in [0, 10], and both are
\* 0.0 when both lists are empty.
C10_ConfidenceWithinRange ==
    \A k \in 1..Len(enriched_issues) :
        /\ enriched_issues[k].rag_confidence.consistency_score \in 0..100
        /\ enriched_issues[k].rag_confidence.peak_relevance_score \in 0..100
        /\ (enriched_issues[k].related_industries = <<>>
            /\ enriched_issues[k].related_past_issues = <<>>)
           => enriched_issues[k].rag_confidence = ZeroConfidence



(***************************************************************************)
(* Properties of the failure handling.  failures holds what the handlers   *)
(* of the issue started last have printed; at an issue boundary that issue *)
(* is the last element of enriched_issues.                                 *)
(***************************************************************************)
Parts == {"industry", "past_issue"}

IssueEmitted ==
    /\ enriched_issues # <<>>
    /\ \/ pc \in {"loop_done", "returned"}
       \/ pc = "vector_search" /\ part = "industry"

LastIssue == enriched_issues[Len(enriched_issues)]

Related(issue, p) ==
    IF p = "industry" THEN issue.related_industries ELSE issue.related_past_issues

RankedByVectorScoreAlone(list) ==
    /\ \A k \in 1..Len(list) : list[k].ai_score = 0
    /\ \A k \in 1..(Len(list) - 1) : list[k].vector_score >= list[k + 1].vector_score

\* C11: when the re-ranker call of a partition raises, _ai_rerank_candidates
\* returns [] (the failure never reaches the per-issue handler from that
\* partition), combine keeps the vector candidates in their order with every
\* ai_score = 0, and the issue is emitted with that partition's list ranked
\* by vector score alone, non-empty unless the other partition failed the issue.
C11_RerankFailureDegradesToVectorOnly ==
    /\ \A p \in Parts : <<p, "rerank">> \in failures => <<p, "issue">> \notin failures
    /\ (<<part, "rerank">> \in failures /\ pc \in {"combine", "verify"}) => ai_candidates = <<>>
    /\ (<<part, "rerank">> \in failures /\ Combined) =>
           /\ Len(combined_candidates) = Len(vector_candidates)
           /\ \A k \in 1..Len(combined_candidates) :
                  combined_candidates[k].name = vector_candidates[k].name
           /\ RankedByVectorScoreAlone(combined_candidates)
    /\ IssueEmitted =>
           \A p \in Parts :
               <<p, "rerank">> \in failures =>
                   /\ RankedByVectorScoreAlone(Related(LastIssue, p))
                   /\ ~HasError(LastIssue) => Related(LastIssue, p) # <<>>

\* an issue is out whose re-ranker call raised for the industries: its list
\* holds several candidates of different vector scores
C11_Witness ==
    /\ IssueEmitted
    /\ <<"industry", "rerank">> \in failures
    /\ ~HasError(LastIssue)
    /\ Len(LastIssue.related_industries) >= 2
    /\ LastIssue.related_industries[1].vector_score > LastIssue.related_industries[2].vector_score

\* C13: when the verifier call raises for the j-th candidate, that candidate
\* is kept with the verification-error verdict (not grounded, empty quote,
\* the error text), its final_score is round(final_score * 0.5, 1) of the
\* score combine gave it, and the verifier has been called exactly once for
\* every visited candidate that has a reason: no call is repeated.
C13_VerifierFailurePenalizedNotRetried ==
    pc = "verify" =>
        /\ \A j \in 1..Len(combined_candidates) :
               <<part, "verify", j>> \in failures =>
                   /\ j <= Len(verified_candidates)
                   /\ verified_candidates[j].name = combined_candidates[j].name
                   /\ verified_candidates[j].verification =
                          [is_grounded |-> FALSE, supporting_quote |-> "",
                           unverified_reason |-> "verification_error"]
                   /\ verified_candidates[j].final_score =
                          RoundDiv(5 * combined_candidates[j].final_score, 10)
        /\ calls.verify =
               Cardinality({j \in 1..Len(verified_candidates) :
                                combined_candidates[j].ai_reason # ""})

\* verify has returned, the call for the second candidate raised and the
\* candidate lost half of a positive score
C13_Witness ==
    /\ VerifyReturned
    /\ <<part, "verify", 2>> \in failures
    /\ combined_candidates[2].final_score > 0
    /\ verified_candidates[2].final_score < combined_candidates[2].final_score
    /\ calls.verify >= 2

RetrieveFailed(p) == <<p, "embed">> \in failures \/ <<p, "search">> \in failures

\* C12: when the embedding call or the index search of a partition raises,
\* _vector_search returns [] and the issue is emitted without an error note
\* and with an empty list for that partition.
C12_RetrieveFailureNoErrorNote ==
    /\ (RetrieveFailed(part) /\ pc \in {"ai_rerank", "combine", "verify"}) =>
           vector_candidates = <<>>
    /\ IssueEmitted =>
           \A p \in Parts :
               RetrieveFailed(p) =>
                   /\ ~HasError(LastIssue)
                   /\ Related(LastIssue, p) = <<>>

\* C14: whatever the re-ranker and the verifier answer, no stage raises: no
\* emitted issue carries the error note of the per-issue handler.
C14_MalformedAnswerNeverRaises ==
    \A k \in 1..Len(enriched_issues) : ~HasError(enriched_issues[k])

\* C15: in every emitted issue every candidate's vector_score, ai_score and
\* final_score is within 0..10 with at most one decimal place (vector_score
\* is counted in hundredths, the two others in tenths).
C15_ScoresInRangeOneDecimal ==
    \A k \in 1..Len(enriched_issues) :
        \A p \in Parts :
            \A j \in 1..Len(Related(enriched_issues[k], p)) :
                LET c == Related(enriched_issues[k], p)[j]
                IN  /\ c.vector_score \in 0..1000
                    /\ c.vector_score % 10 = 0
                    /\ c.ai_score \in 0..100
                    /\ c.final_score \in 0..100

FinalScores(list) == [k \in 1..Len(list) |-> list[k].final_score]

\* C16: an issue that went through the aggregate carries
\* consistency_score = round(mean of the means of the non-empty lists, 1) and
\* peak_relevance_score = round(mean of their maxima, 1); with one non-empty
\* list its mean and its maximum alone, with none 0 and 0.
C16_ConfidenceIsMeanOfPartitionMeans ==
    (IssueEmitted /\ ~HasError(LastIssue)) =>
        LET ind == FinalScores(LastIssue.related_industries)
            past == FinalScores(LastIssue.related_past_issues)
            conf == LastIssue.rag_confidence
        IN  CASE ind # <<>> /\ past # <<>> ->
                     /\ conf.consistency_score =
                            RoundDiv(SumSeq(ind) * Len(past) + SumSeq(past) * Len(ind),
                                     2 * Len(ind) * Len(past))
                     /\ conf.peak_relevance_score = RoundDiv(MaxSeq(ind) + MaxSeq(past), 2)
              [] ind # <<>> /\ past = <<>> ->
                     /\ conf.consistency_score = RoundDiv(SumSeq(ind), Len(ind))
                     /\ conf.peak_relevance_score = MaxSeq(ind)
              [] ind = <<>> /\ past # <<>> ->
                     /\ conf.consistency_score = RoundDiv(SumSeq(past), Len(past))
                     /\ conf.peak_relevance_score = MaxSeq(past)
              [] OTHER ->
                     /\ conf.consistency_score = 0
                     /\ conf.peak_relevance_score = 0

\* two industries and one past issue, where the mean of the two means differs
\* from the mean over all three candidates and the maxima differ
C16_Witness ==
    /\ IssueEmitted
    /\ ~HasError(LastIssue)
    /\ Len(LastIssue.related_industries) = 2
    /\ Len(LastIssue.related_past_issues) = 1
    /\ LET ind == FinalScores(LastIssue.related_industries)
           past == FinalScores(LastIssue.related_past_issues)
       IN  /\ LastIssue.rag_confidence.consistency_score # RoundDiv(SumSeq(ind) + SumSeq(past), 3)
           /\ MaxSeq(ind) # MaxSeq(past)
           /\ ind[1] # ind[2]

\* C17: an issue emitted while its past issues are processed carries the
\* industries list that the industries partition had produced.
C17_OtherPartitionListUntouched ==
    [][(part = "past_issue" /\ Len(enriched_issues') = Len(enriched_issues) + 1) =>
           enriched_issues'[Len(enriched_issues')].related_industries = related_industries]_vars

NonIncreasingFinalScore(list) ==
    \A k \in 1..(Len(list) - 1) : list[k].final_score >= list[k + 1].final_score

\* position of a name in the result of _vector_search, which holds it once
VectorRank(name) == CHOOSE k \in 1..Len(vector_candidates) : vector_candidates[k].name = name

\* C18: the list _combine_results returns is in non-increasing order of
\* final_score, and two candidates of equal final_score stand in the order
\* they have in the vector search results.
C18_CombineSortedStable ==
    Combined =>
        /\ NonIncreasingFinalScore(combined_candidates)
        /\ \A i, j \in 1..Len(combined_candidates) :
               (i < j /\ combined_candidates[i].final_score = combined_candidates[j].final_score)
                   => VectorRank(combined_candidates[i].name) < VectorRank(combined_candidates[j].name)

\* combine has moved the first vector candidate down and has left two
\* re-ranked candidates on equal final_score
C18_Witness ==
    /\ Combined
    /\ Len(combined_candidates) >= 3
    /\ combined_candidates[1].name # vector_candidates[1].name
    /\ \E i \in 1..(Len(combined_candidates) - 1) :
           /\ combined_candidates[i].final_score = combined_candidates[i + 1].final_score
           /\ combined_candidates[i].ai_score > 0
           /\ combined_candidates[i + 1].ai_score > 0

\* C19: the industries list an analysis has returned, and both lists of
\* every emitted issue, are in non-increasing order of the final_score the
\* candidates carry after the penalties.
C19_EmittedListsSortedAfterPenalty ==
    /\ NonIncreasingFinalScore(related_industries)
    /\ NonIncreasingFinalScore(related_past_issues)
    /\ \A k \in 1..Len(enriched_issues) :
           \A p \in Parts : NonIncreasingFinalScore(Related(enriched_issues[k], p))

\* an emitted industries list in which a penalized candidate stands behind a
\* candidate that combine had ranked below it
C19_Witness ==
    /\ IssueEmitted
    /\ \E k \in 1..(Len(LastIssue.related_industries) - 1) :
           LET hi == LastIssue.related_industries[k]
               lo == LastIssue.related_industries[k + 1]
           IN  /\ hi.final_score > lo.final_score
               /\ RoundDiv(3 * hi.vector_score + 70 * hi.ai_score, 100)
                      < RoundDiv(3 * lo.vector_score + 70 * lo.ai_score, 100)
               /\ hi.verification.is_grounded = TRUE
               /\ lo.verification.is_grounded = FALSE

\* C20: a visited candidate whose ai_reason is empty is kept as not grounded,
\* with an empty supporting_quote and a non-empty unverified_reason, at
\* round(final_score * 0.5, 1) of its combined score, and the verifier has
\* been called for no more candidates than those that have a reason.
C20_EmptyReasonShortCircuits ==
    pc = "verify" =>
        /\ \A j \in 1..Len(verified_candidates) :
               combined_candidates[j].ai_reason = "" =>
                   /\ verified_candidates[j].verification.is_grounded = FALSE
                   /\ verified_candidates[j].verification.supporting_quote = ""
                   /\ verified_candidates[j].verification.unverified_reason # ""
                   /\ verified_candidates[j].final_score =
                          RoundDiv(5 * combined_candidates[j].final_score, 10)
        /\ calls.verify <=
               Cardinality({j \in 1..Len(verified_candidates) :
                                combined_candidates[j].ai_reason # ""})

\* verify has returned: the first candidate has a score of the re-ranker but
\* no reason and lost half of it, and the only call was for the second one
C20_Witness ==
    /\ VerifyReturned
    /\ Len(verified_candidates) >= 2
    /\ combined_candidates[1].ai_reason = ""
    /\ combined_candidates[1].ai_score > 0
    /\ verified_candidates[1].final_score < combined_candidates[1].final_score
    /\ combined_candidates[2].ai_reason # ""
    /\ calls.verify = 1

\* C21: every candidate verify has kept differs from the candidate combine
\* produced only in the added verification field and, when its verdict is not
\* grounded, in the halved final_score; a grounded candidate keeps its
\* final_score.
C21_VerifyChangesOnlyUngroundedScore ==
    pc = "verify" =>
        \A j \in 1..Len(verified_candidates) :
            LET before == combined_candidates[j]
                after == verified_candidates[j]
            IN  /\ DOMAIN after = DOMAIN before \cup {"verification"}
                /\ \A f \in DOMAIN before \ {"final_score"} : after[f] = before[f]
                /\ Get(after.verification, "is_grounded", FALSE) = TRUE =>
                       after.final_score = before.final_score
                /\ after.final_score # before.final_score =>
                       /\ Get(after.verification, "is_grounded", FALSE) # TRUE
                       /\ after.final_score = RoundDiv(5 * before.final_score, 10)

\* verify has returned a grounded candidate with its score and a penalized one
C21_Witness ==
    /\ VerifyReturned
    /\ \E i, j \in 1..Len(verified_candidates) :
           /\ Get(verified_candidates[i].verification, "is_grounded", FALSE) = TRUE
           /\ verified_candidates[i].final_score = combined_candidates[i].final_score
           /\ verified_candidates[i].final_score > 0
           /\ verified_candidates[i].ai_reason # ""
           /\ verified_candidates[j].final_score < combined_candidates[j].final_score

\* the per-issue handler has taken over: the issue leaves with an error note
Aborted ==
    /\ Len(enriched_issues') = Len(enriched_issues) + 1
    /\ HasError(enriched_issues'[Len(enriched_issues')])

StartsNextIssue ==
    /\ part' = "industry"
    /\ pc' \in {"vector_search", "loop_done"}
    /\ issue_idx' = issue_idx + 1

\* C22: the stages of a partition run in the order retrieve, rerank, combine,
\* verify, final sort, each on the output of the one before; the past issues
\* start when the industries are sorted, the confidence is computed when the
\* past issues are sorted, from the two sorted lists; a stage that raises to
\* the per-issue handler ends the issue, no later stage runs for it.
C22_StagesInOrder ==
    [][/\ pc = "vector_search" => pc' = "ai_rerank" /\ part' = part
       /\ pc = "ai_rerank" => pc' = "combine" /\ part' = part
                              /\ vector_candidates' = vector_candidates
       /\ pc = "combine" =>
              \/ /\ pc' = "verify" /\ part' = part
                 /\ NameSet(combined_candidates') = NameSet(vector_candidates)
                 /\ verified_candidates' = <<>>
              \/ Aborted /\ StartsNextIssue
       /\ pc = "verify" =>
              \/ /\ pc' = "verify" /\ part' = part              \* one more candidate verified
                 /\ Len(verified_candidates) < Min(TopK, Len(combined_candidates))
                 /\ Len(verified_candidates') = Len(verified_candidates) + 1
                 /\ combined_candidates' = combined_candidates
                 /\ verified_candidates'[Len(verified_candidates')].name =
                        combined_candidates[Len(verified_candidates')].name
              \/ /\ Len(verified_candidates) = Min(TopK, Len(combined_candidates))   \* final sort
                 /\ IF part = "industry"
                    THEN /\ part' = "past_issue" /\ pc' = "vector_search"
                         /\ Len(related_industries') = Len(verified_candidates)
                         /\ NameSet(related_industries') = NameSet(verified_candidates)
                    ELSE /\ part' = part /\ pc' = "confidence"
                         /\ Len(related_past_issues') = Len(verified_candidates)
                         /\ NameSet(related_past_issues') = NameSet(verified_candidates)
                         /\ related_industries' = related_industries
              \/ Aborted /\ StartsNextIssue
       /\ pc = "confidence" =>
              /\ part = "past_issue"
              /\ StartsNextIssue
              /\ Len(enriched_issues') = Len(enriched_issues) + 1
              /\ enriched_issues'[Len(enriched_issues')].related_industries = related_industries
              /\ enriched_issues'[Len(enriched_issues')].related_past_issues = related_past_issues
       /\ pc = "loop_done" => pc' = "returned"
       /\ pc = "returned" => FALSE]_vars

\* an issue is out whose two partitions each went through all five stages
C22_Witness ==
    /\ IssueEmitted
    /\ ~HasError(LastIssue)
    /\ LastIssue.related_industries # <<>>
    /\ LastIssue.related_past_issues # <<>>
    /\ \A p \in Parts : "verification" \in DOMAIN Related(LastIssue, p)[1]

EnrichmentFields == {"related_industries", "related_past_issues", "rag_confidence", "error"}

\* C23: the input list stays as it was handed in, and enriched issue k has
\* the fields of input issue k with their values, plus enrichment fields only.
C23_InputIssuesUntouched ==
    /\ filtered_issues = IssueList(Len(filtered_issues))
    /\ \A k \in 1..Len(enriched_issues) :
           /\ \A f \in DOMAIN filtered_issues[k] \ EnrichmentFields :
                  /\ f \in DOMAIN enriched_issues[k]
                  /\ enriched_issues[k][f] = filtered_issues[k][f]
           /\ DOMAIN enriched_issues[k] \subseteq DOMAIN filtered_issues[k] \cup EnrichmentFields
           /\ "error" \notin DOMAIN filtered_issues[k]

\* two issues are out, one enriched and one failed
C23_Witness ==
    /\ pc = "returned"
    /\ Len(enriched_issues) = 2
    /\ ~HasError(enriched_issues[1])
    /\ enriched_issues[1].related_past_issues # <<>>
    /\ HasError(enriched_issues[2])

\* C26: every candidate list of an emitted issue holds at most three
\* candidates, each with a verification field, so the confidence of the issue
\* is computed over at most three scores per list.
C26_AtMostThreeVerifiedPerList ==
    /\ Len(related_industries) <= 3
    /\ Len(related_past_issues) <= 3
    /\ \A k \in 1..Len(enriched_issues) :
           \A p \in Parts :
               LET list == Related(enriched_issues[k], p)
               IN  /\ Len(list) <= 3
                   /\ \A j \in 1..Len(list) : "verification" \in DOMAIN list[j]

\* an issue is out with three verified industries
C26_Witness ==
    /\ IssueEmitted
    /\ Len(LastIssue.related_industries) = 3
    /\ LastIssue.rag_confidence.peak_relevance_score = LastIssue.related_industries[1].final_score

CallsWithinBudget ==
    /\ calls.embed <= 1
    /\ calls.search <= 1
    /\ calls.rerank <= 1
    /\ calls.verify <= 3

\* C24: at any moment the analysis of the current (issue, partition) has made
\* at most one embedding call, one index search, one re-ranker call and
\* three verifier calls, failed calls included, and every run ends with the
\* call returned and one enriched issue per input issue.
C24_TerminatesWithinCallBudget ==
    /\ []CallsWithinBudget
    /\ <>(pc = "returned" /\ Len(enriched_issues) = Len(filtered_issues))

\* the second issue of a batch has used up the whole budget of a partition,
\* its first verifier call having raised
C24_Witness ==
    /\ issue_idx = 2
    /\ VerifyReturned
    /\ calls = [embed |-> 1, search |-> 1, rerank |-> 1, verify |-> 3]
    /\ <<part, "verify", 1>> \in failures

InInitializeBody(t) == callers[t].pc \in {"database", "rag", "pipeline", "done"}

InRun(t) == tasks[t].pc # "idle"

OneRunAtATime ==
    /\ \A t, u \in Tasks : InRun(t) /\ InRun(u) => t = u
    /\ is_running <=> \E t \in Tasks : InRun(t)

\* a call made while the flag is set returns where it stands
SkipsWhileRunning ==
    \A t \in Tasks :
        is_running /\ tasks[t].pc = "idle" /\ tasks'[t].runs = tasks[t].runs + 1
        => /\ tasks'[t] = [tasks[t] EXCEPT !.runs = @ + 1, !.skipped = @ + 1]
           /\ \A u \in Tasks \ {t} : tasks'[u] = tasks[u]
           /\ UNCHANGED <<is_running, database, result_files>>

\* C27: for one executor at most one pipeline run is in progress at any time:
\* a call of run_scheduled_update made while is_running is true returns without
\* starting the pipeline, and is_running is false whenever no run is in
\* progress, however the last run ended.
C27_AtMostOneRun == []OneRunAtATime /\ [][SkipsWhileRunning]_vars

\* a call has been skipped while the other task's run waits at its await
C27_Witness ==
    \E t, u \in Tasks : tasks[t].pc = "save" /\ tasks[u].skipped >= 1 /\ is_running

IsPrefixOf(s, whole) == Len(s) <= Len(whole) /\ s = SubSeq(whole, 1, Len(s))

\* C28: execute_full_pipeline either returns a result whose final_status is
\* success and whose steps_completed is the three steps in order, or raises;
\* it returns no result that is running or failed, and steps_completed is a
\* prefix of the three steps at every point.
C28_ReturnsSuccessOrRaises ==
    \A t \in Tasks :
        /\ IsPrefixOf(tasks[t].result.steps_completed, PipelineSteps)
        /\ tasks[t].outcome = "returned"
           => /\ tasks[t].result.final_status = "success"
              /\ tasks[t].result.steps_completed = PipelineSteps
        /\ tasks[t].pc \in {"await_save", "save", "finally"}
           => tasks[t].outcome \in {"returned", "raised"}
        /\ tasks[t].outcome = "none"
           => tasks[t].pc \in {"idle", "crawl", "extract", "rag", "prepare", "finish", "except"}

\* a run of two issues, the second of them failed in the RAG analysis, has returned
C28_Witness ==
    \E t \in Tasks :
        /\ tasks[t].pc = "await_save"
        /\ tasks[t].outcome = "returned"
        /\ Len(tasks[t].result.api_ready_data) = 2
        /\ "error" \in DOMAIN tasks[t].enriched[2]

\* crawling and filtering have yielded no filtered issues
NoFilteredIssues(raw_filtered) ==
    \/ raw_filtered.kind \in {"missing", "null", "other_dict"}
    \/ raw_filtered.kind \in {"list", "selected"} /\ raw_filtered.items = <<>>

\* C29: when crawling and filtering yield no filtered issues (an empty list or
\* a value of an unsupported shape), execute_full_pipeline fails by raising,
\* without invoking the RAG analysis, preparing API data or writing a result
\* file.
C29_NoFilteredIssuesRaises ==
    \A t \in Tasks :
        NoFilteredIssues(tasks[t].crawling_result)
        => /\ tasks[t].pc \in {"extract", "except", "finally"}
           /\ tasks[t].called = <<"crawl">>
           /\ tasks[t].result.api_ready_data = <<>>
           /\ tasks[t].result.final_status # "success"
           /\ tasks[t].pc = "finally" => tasks[t].outcome = "raised"

\* a run whose filter answered an empty selection has raised
C29_Witness ==
    \E t \in Tasks :
        /\ tasks[t].crawling_result.kind = "selected"
        /\ tasks[t].crawling_result.items = <<>>
        /\ tasks[t].pc = "finally"
        /\ tasks[t].outcome = "raised"

StoredRows(result) == [i \in 1..Len(result.api_ready_data) |-> Row(result.api_ready_data[i])]

\* C30: save_pipeline_result is all-or-nothing: after it returns, the stored
\* issues are exactly the selected issues of the run plus one log row, all
\* committed; after it fails, what was committed before is intact and nothing
\* is left uncommitted on the connection.
C30_SaveAllOrNothing ==
    \A t \in Tasks :
        /\ tasks[t].pc = "finally" /\ tasks[t].saved = "returned"
           => /\ database.committed.news_issues = StoredRows(tasks[t].result)
              /\ database.committed.pipeline_logs = tasks[t].committed_before.pipeline_logs + 1
              /\ Snapshot(database) = database.committed
        /\ tasks[t].pc = "finally" /\ tasks[t].saved = "raised"
           => /\ database.committed = tasks[t].committed_before
              /\ Snapshot(database) = database.committed

====
